---- MODULE Spec2Model ----
(***************************************************************************)
(* The message server (POST /send, GET /recv, GET /health) over its        *)
(* module-level Map<string, Message[]>.  Node runs every route handler to  *)
(* completion before the next one starts, so one action is one handler     *)
(* run, and concurrent callers are every order in which handlers can run.  *)
(* LiveSpec adds the requests that wait for their handler; EchoSpec is the *)
(* echo server with its request log and its API key gate.                  *)
(***************************************************************************)
EXTENDS Integers, Sequences, FiniteSets, TLC

VARIABLES
  messages,    \* the Map: recipient key -> array of Message
  now,         \* the last value read from the clock (ms)
  allocated,   \* number of Message objects created so far (object identity)
  calls,       \* history: the requests that reached the Map, in handler order
  request,     \* the request handled last
  response,    \* the response written for it
  env,         \* what the clients, the clock and Math.random can produce
  inflight,    \* requests received whose route handler has not run yet
  logFile,     \* echo server: the lines of logs/requests.log
  exchanges    \* echo server: its requests in arrival order, with their responses

vars == <<messages, now, allocated, calls, request, response, env,
          inflight, logFile, exchanges>>

----------------------------------------------------------------------------
(* Bounds of the model. *)

\* requests that reach the Map in one behaviour
MaxCalls == 4
\* clock readings range over 0..MaxClock where the clock is let run
MaxClock == 1
\* requests that wait for their handler at one time
MaxInFlight == 2
\* requests the echo server receives in one behaviour
MaxEchoRequests == 3

----------------------------------------------------------------------------
(* JavaScript values and strings.  A string is a sequence of characters. *)

Uppers == <<"A","B","C","D","E","F","G","H","I","J","K","L","M",
            "N","O","P","Q","R","S","T","U","V","W","X","Y","Z">>
Lowers == <<"a","b","c","d","e","f","g","h","i","j","k","l","m",
            "n","o","p","q","r","s","t","u","v","w","x","y","z">>
Digits == <<"0","1","2","3","4","5","6","7","8","9">>
WhiteSpace == {" ", "\t", "\n"}

Undefined == [type |-> "undefined", str |-> <<>>, num |-> 0, items |-> <<>>]
Str(s)    == [type |-> "string", str |-> s, num |-> 0, items |-> <<>>]
Num(n)    == [type |-> "number", str |-> <<>>, num |-> n, items |-> <<>>]
Arr(ss)   == [type |-> "array", str |-> <<>>, num |-> 0, items |-> ss]

\* a truthiness test that lets only non-empty strings through
TruthyOnlyStrings(v) == v.type = "string" /\ v.str # <<>>

\* !v is FALSE: undefined, "" and 0 are falsy, every array is truthy
Truthy(v) ==
  CASE v.type = "undefined" -> FALSE
    [] v.type = "string"    -> v.str # <<>>
    [] v.type = "number"    -> v.num # 0
    [] OTHER                -> TRUE

LowerChar(c) ==
  IF \E i \in 1..Len(Uppers) : Uppers[i] = c
  THEN Lowers[CHOOSE i \in 1..Len(Uppers) : Uppers[i] = c]
  ELSE c

ToLowerCase(s) == [i \in 1..Len(s) |-> LowerChar(s[i])]

RECURSIVE TrimStart(_)
TrimStart(s) ==
  IF s # <<>> /\ Head(s) \in WhiteSpace THEN TrimStart(Tail(s)) ELSE s

RECURSIVE TrimEnd(_)
TrimEnd(s) ==
  IF s # <<>> /\ s[Len(s)] \in WhiteSpace
  THEN TrimEnd(SubSeq(s, 1, Len(s) - 1))
  ELSE s

\* an emptiness test that forgets to trim
TrimNothing(s) == s

Trim(s) == TrimEnd(TrimStart(s))

RECURSIVE NatToString(_)
NatToString(n) ==
  IF n < 10 THEN <<Digits[n + 1]>>
  ELSE NatToString(n \div 10) \o <<Digits[(n % 10) + 1]>>

RECURSIVE Join(_)
Join(ss) ==
  IF ss = <<>> THEN <<>>
  ELSE IF Len(ss) = 1 THEN ss[1]
  ELSE ss[1] \o <<",">> \o Join(Tail(ss))

\* String(v)
StringOf(v) ==
  CASE v.type = "string"    -> v.str
    [] v.type = "number"    -> NatToString(v.num)
    [] v.type = "array"     -> Join(v.items)
    [] OTHER                -> <<"u","n","d","e","f","i","n","e","d">>

----------------------------------------------------------------------------
(* Requests. *)

NoBody == [present |-> FALSE, recipient |-> Undefined, message |-> Undefined]
Body(r, m) == [present |-> TRUE, recipient |-> r, message |-> m]
Query(r) == [recipient |-> r]

SendRequest(body) == [route |-> "POST /send", body |-> body, query |-> Query(Undefined)]
RecvRequest(query) == [route |-> "GET /recv", body |-> NoBody, query |-> query]
HealthRequest == [route |-> "GET /health", body |-> NoBody, query |-> Query(Undefined)]
NoRequest == [route |-> "none", body |-> NoBody, query |-> Query(Undefined)]

NoResponse == [status |-> 0, error |-> "", message |-> ""]

----------------------------------------------------------------------------
(* What the outside can produce.  One behaviour runs in one environment.   *)

sA    == <<"A">>
sa    == <<"a">>
sb    == <<"b">>
sPadA == <<" ", "A", " ">>
sPada == <<" ", "a", " ">>
sBlank == <<" ", " ">>
sEmpty == <<>>
s123  == <<"1", "2", "3">>
sAcb  == <<"A", ",", "b">>
sM1   == <<"m", "1">>
sM2   == <<"m", "2">>
sX    == <<"x", "7">>
sY    == <<"y", "k", "3">>

Bodies(rs, ms) == {Body(r, m) : r \in rs, m \in ms}
Strs(ss) == {Str(s) : s \in ss}

\* two plain recipients, two contents
EnvStore ==
  [name |-> "store",
   bodies |-> Bodies(Strs({sa, sb}), Strs({sM1, sM2})),
   queries |-> {Query(r) : r \in Strs({sa, sb})},
   randoms |-> {sX}, clockMax |-> 0]

\* recipients that differ in case and in surrounding whitespace
EnvKeys ==
  [name |-> "keys",
   bodies |-> Bodies(Strs({sA, sa, sPadA, sBlank}), Strs({sM1})),
   queries |-> {Query(r) : r \in Strs({sA, sa, sPada, sBlank})},
   randoms |-> {sX}, clockMax |-> 0]

\* every shape of a field the validation of /send looks at
BadFields == {Undefined, Num(123), Str(sEmpty)}
EnvSendShapes ==
  [name |-> "send shapes",
   bodies |-> {NoBody} \cup
              Bodies(BadFields, {Undefined, Str(sM1)}) \cup
              Bodies({Str(sBlank), Str(sa)}, BadFields \cup {Str(sBlank)}) \cup
              Bodies({Str(sa)}, {Str(sM1)}),
   queries |-> {Query(Str(sa))},
   randoms |-> {sX}, clockMax |-> 0]

\* every shape of the query parameter the validation of /recv looks at
EnvRecvShapes ==
  [name |-> "recv shapes",
   bodies |-> Bodies(Strs({sa, s123, sAcb}), Strs({sM1})),
   queries |-> {Query(r) : r \in {Undefined, Str(sEmpty), Str(sBlank), Str(sa),
                                  Str(s123), Arr(<<sA, sb>>), Arr(<<>>)}},
   randoms |-> {sX}, clockMax |-> 0]

\* the clock runs and Math.random has two outcomes
EnvIds ==
  [name |-> "ids",
   bodies |-> Bodies(Strs({sa}), Strs({sM1})),
   queries |-> {Query(Str(sa))},
   randoms |-> {sX, sY}, clockMax |-> MaxClock]

\* one request for every outcome of the three handlers
EnvLive ==
  [name |-> "live",
   bodies |-> {NoBody, Body(Undefined, Str(sM1)), Body(Str(sa), Undefined),
               Body(Str(sa), Str(sM1))},
   queries |-> {Query(r) : r \in {Undefined, Str(sBlank), Str(sa)}},
   randoms |-> {sX}, clockMax |-> 0]

Environments == {EnvStore, EnvKeys, EnvSendShapes, EnvRecvShapes, EnvIds, EnvLive}

----------------------------------------------------------------------------
(* The Map operations the handlers use. *)

Has(map, key) == key \in DOMAIN map

\* messages.get(key) || []
GetOrEmpty(map, key) == IF Has(map, key) THEN map[key] ELSE <<>>

\* a Send that replaces the array instead of pushing onto it
StoreAppendOverwrites(map, key, m) ==
  [k \in DOMAIN map \cup {key} |-> IF k = key THEN <<m>> ELSE map[k]]

\* a Send that unshifts instead of pushing
StoreAppendInFront(map, key, m) ==
  [k \in DOMAIN map \cup {key} |->
     IF k = key THEN <<m>> \o (IF k \in DOMAIN map THEN map[k] ELSE <<>>)
     ELSE map[k]]

\* a Send that pushes the message twice
StoreAppendTwice(map, key, m) ==
  [k \in DOMAIN map \cup {key} |->
     IF k = key THEN (IF k \in DOMAIN map THEN map[k] ELSE <<>>) \o <<m, m>>
     ELSE map[k]]

\* a Send that files the message only when the key is new
StoreAppendOnlyFirst(map, key, m) ==
  IF key \in DOMAIN map THEN map ELSE map @@ (key :> <<m>>)

\* a Send that rebuilds the Map around the one mailbox it pushed onto
StoreAppendDropsOthers(map, key, m) ==
  key :> Append(IF key \in DOMAIN map THEN map[key] ELSE <<>>, m)

\* if (!messages.has(k)) messages.set(k, []); messages.get(k).push(m)
StoreAppend(map, key, m) ==
  LET withEntry == IF Has(map, key) THEN map ELSE map @@ (key :> <<>>)
  IN  [withEntry EXCEPT ![key] = Append(@, m)]

\* a Receive that forgets the delete
StoreDeleteForgotten(map, key) == map

\* a Receive that empties the array and keeps the entry
StoreDeleteLeavesEmpty(map, key) == [map EXCEPT ![key] = <<>>]

\* a Receive that clears the whole Map
StoreDeleteClearsAll(map, key) == <<>>

\* messages.delete(key)
StoreDelete(map, key) == [k \in DOMAIN map \ {key} |-> map[k]]

\* a Receive that answers with the first message only
MessagesToReturnFirstOnly(recipientMessages) ==
  IF recipientMessages = <<>> THEN <<>> ELSE <<Head(recipientMessages)>>

\* [...recipientMessages]
MessagesToReturn(recipientMessages) == recipientMessages

\* messages.size
TotalRecipients(map) == Cardinality(DOMAIN map)

\* Date.now().toString() + Math.random().toString(36).substr(2, 9)
generateMessageId(t, rnd) == NatToString(t) \o rnd

\* a key taken as the caller spelled it
RecipientKeyAsGiven(s) == s

\* recipient.toLowerCase() in /send, recipientStr.toLowerCase() in /recv
RecipientKey(s) == ToLowerCase(s)

\* a validation without the typeof test
InvalidFieldNoTypeof(v) == ~Truthy(v)

\* !recipient || typeof recipient !== 'string'   (same test for message)
InvalidField(v) == ~Truthy(v) \/ v.type # "string"

\* a response list that leaves out the last message
ProjectionDropsLast(ms) ==
  [i \in 1..(Len(ms) - 1) |->
     [id |-> ms[i].id, content |-> ms[i].content, timestamp |-> ms[i].timestamp]]

\* a response list stamped with the time of delivery
ProjectionStampsDelivery(ms) ==
  [i \in 1..Len(ms) |->
     [id |-> ms[i].id, content |-> ms[i].content, timestamp |-> now]]

\* the {id, content, timestamp} projection of the /recv response
Projection(ms) ==
  [i \in 1..Len(ms) |->
     [id |-> ms[i].id, content |-> ms[i].content, timestamp |-> ms[i].timestamp]]

----------------------------------------------------------------------------
Init ==
  /\ env \in Environments
  /\ messages = <<>>
  /\ now = 0
  /\ allocated = 0
  /\ calls = <<>>
  /\ request = NoRequest
  /\ response = NoResponse
  /\ inflight = {}
  /\ logFile = <<>>
  /\ exchanges = <<>>

\* the handler of a request has run: the request is no longer in flight
Served(req) == inflight' = inflight \ {req}

\* a response that leaves the Map as it was
Reject(req, res) ==
  /\ request' = req
  /\ response' = res
  /\ Served(req)
  /\ UNCHANGED <<messages, now, allocated, calls, env, logFile, exchanges>>

SendBadRecipient ==
  [status |-> 400, error |-> "Invalid recipient",
   message |-> "Recipient is required and must be a string"]
SendBadMessage ==
  [status |-> 400, error |-> "Invalid message",
   message |-> "Message is required and must be a string"]
\* a missing body answered like a missing recipient
SendFailedAsBadRequest ==
  [status |-> 400, error |-> "Invalid recipient",
   message |-> "Recipient is required and must be a string"]
SendFailed ==
  [status |-> 500, error |-> "Internal server error",
   message |-> "Failed to send message"]
RecvMissing ==
  [status |-> 400, error |-> "Invalid recipient",
   message |-> "Recipient parameter is required"]
RecvEmpty ==
  [status |-> 400, error |-> "Invalid recipient",
   message |-> "Recipient parameter cannot be empty"]

\* what a request that reached the Map did: the Message objects it created
\* or took out, with the request and the response
Call(op, key, msgs, req, res) ==
  [op |-> op, key |-> key, msgs |-> msgs, req |-> req, res |-> res]

\* a Send that tests the message before the recipient
PostSendMessageFirst(body) ==
  LET req == SendRequest(body) IN
  \/ /\ ~body.present                    \* destructuring undefined throws
     /\ Reject(req, SendFailed)
  \/ /\ body.present
     /\ InvalidField(body.message)
     /\ Reject(req, SendBadMessage)
  \/ /\ body.present
     /\ ~InvalidField(body.message)
     /\ InvalidField(body.recipient)
     /\ Reject(req, SendBadRecipient)
  \/ /\ body.present
     /\ ~InvalidField(body.recipient)
     /\ ~InvalidField(body.message)
     /\ Len(calls) < MaxCalls
     /\ \E t1 \in now..env.clockMax, rnd \in env.randoms :
        \E t2 \in t1..env.clockMax :
          LET newMessage ==
                [ref |-> allocated + 1,
                 id |-> generateMessageId(t1, rnd),
                 content |-> body.message.str,
                 recipient |-> RecipientKey(body.recipient.str),
                 timestamp |-> t2]
              res ==
                [status |-> 201, success |-> TRUE,
                 message |-> "Message sent successfully",
                 data |-> [id |-> newMessage.id,
                           recipient |-> newMessage.recipient,
                           timestamp |-> newMessage.timestamp]]
          IN
          /\ messages' = StoreAppend(messages, newMessage.recipient, newMessage)
          /\ now' = t2
          /\ allocated' = allocated + 1
          /\ calls' = Append(calls, Call("Send", newMessage.recipient,
                                         <<newMessage>>, req, res))
          /\ request' = req
          /\ response' = res
          /\ Served(req)
          /\ UNCHANGED <<env, logFile, exchanges>>

\* app.post('/send')
PostSend(body) ==
  LET req == SendRequest(body) IN
  \/ /\ ~body.present                    \* destructuring undefined throws
     /\ Reject(req, SendFailed)
  \/ /\ body.present
     /\ InvalidField(body.recipient)
     /\ Reject(req, SendBadRecipient)
  \/ /\ body.present
     /\ ~InvalidField(body.recipient)
     /\ InvalidField(body.message)
     /\ Reject(req, SendBadMessage)
  \/ /\ body.present
     /\ ~InvalidField(body.recipient)
     /\ ~InvalidField(body.message)
     /\ Len(calls) < MaxCalls
     /\ \E t1 \in now..env.clockMax, rnd \in env.randoms :
        \E t2 \in t1..env.clockMax :
          LET newMessage ==
                [ref |-> allocated + 1,
                 id |-> generateMessageId(t1, rnd),
                 content |-> body.message.str,
                 recipient |-> RecipientKey(body.recipient.str),
                 timestamp |-> t2]
              res ==
                [status |-> 201, success |-> TRUE,
                 message |-> "Message sent successfully",
                 data |-> [id |-> newMessage.id,
                           recipient |-> newMessage.recipient,
                           timestamp |-> newMessage.timestamp]]
          IN
          /\ messages' = StoreAppend(messages, newMessage.recipient, newMessage)
          /\ now' = t2
          /\ allocated' = allocated + 1
          /\ calls' = Append(calls, Call("Send", newMessage.recipient,
                                         <<newMessage>>, req, res))
          /\ request' = req
          /\ response' = res
          /\ Served(req)
          /\ UNCHANGED <<env, logFile, exchanges>>

\* app.get('/recv')
GetRecv(query) ==
  LET req == RecvRequest(query)
      recipient == query.recipient
      recipientStr == StringOf(recipient)
      recipientKey == RecipientKey(recipientStr)
      recipientMessages == GetOrEmpty(messages, recipientKey)
      messagesToReturn == MessagesToReturn(recipientMessages)
      resNone ==
        [status |-> 200, success |-> TRUE,
         message |-> "No messages found for recipient",
         data |-> [recipient |-> recipientKey, messages |-> <<>>, count |-> 0]]
      resSome ==
        [status |-> 200, success |-> TRUE,
         message |-> "Messages retrieved successfully",
         data |-> [recipient |-> recipientKey,
                   messages |-> Projection(messagesToReturn),
                   count |-> Len(messagesToReturn)]]
  IN
  \/ /\ ~Truthy(recipient)
     /\ Reject(req, RecvMissing)
  \/ /\ Truthy(recipient)
     /\ Trim(recipientStr) = <<>>
     /\ Reject(req, RecvEmpty)
  \/ /\ Truthy(recipient)
     /\ Trim(recipientStr) # <<>>
     /\ Len(recipientMessages) = 0
     /\ Len(calls) < MaxCalls
     /\ calls' = Append(calls, Call("Receive", recipientKey, <<>>, req, resNone))
     /\ request' = req
     /\ response' = resNone
     /\ Served(req)
     /\ UNCHANGED <<messages, now, allocated, env, logFile, exchanges>>
  \/ /\ Truthy(recipient)
     /\ Trim(recipientStr) # <<>>
     /\ Len(recipientMessages) # 0
     /\ Len(calls) < MaxCalls
     /\ messages' = StoreDelete(messages, recipientKey)
     /\ calls' = Append(calls, Call("Receive", recipientKey, messagesToReturn,
                                    req, resSome))
     /\ request' = req
     /\ response' = resSome
     /\ Served(req)
     /\ UNCHANGED <<now, allocated, env, logFile, exchanges>>

\* a health check that also clears the Map
GetHealthClears ==
  /\ request' = HealthRequest
  /\ response' =
       [status |-> 200, status_text |-> "healthy",
        message |-> "Message server is running",
        totalRecipients |-> TotalRecipients(messages)]
  /\ messages' = <<>>
  /\ Served(HealthRequest)
  /\ UNCHANGED <<now, allocated, calls, env, logFile, exchanges>>

\* app.get('/health')
GetHealth ==
  /\ request' = HealthRequest
  /\ response' =
       [status |-> 200, status_text |-> "healthy",
        message |-> "Message server is running",
        totalRecipients |-> TotalRecipients(messages)]
  /\ Served(HealthRequest)
  /\ UNCHANGED <<messages, now, allocated, calls, env, logFile, exchanges>>

Next ==
  \/ \E body \in env.bodies : PostSend(body)
  \/ \E query \in env.queries : GetRecv(query)
  \/ GetHealth

Spec == Init /\ [][Next]_vars

----------------------------------------------------------------------------
(* Requests in flight.  The server takes a request in (express.json reads  *)
(* the body) and the event loop runs its route handler later, in any order *)
(* with the handlers of the other requests in flight.                      *)

Requests ==
  {SendRequest(body) : body \in env.bodies}
    \cup {RecvRequest(query) : query \in env.queries}
    \cup {HealthRequest}

LiveRequests ==
  {SendRequest(body) : body \in EnvLive.bodies}
    \cup {RecvRequest(query) : query \in EnvLive.queries}
    \cup {HealthRequest}

\* the server takes the request in; its handler has not run
Arrive(req) ==
  /\ req \notin inflight
  /\ Cardinality(inflight) < MaxInFlight
  /\ Len(calls) + Cardinality(inflight) < MaxCalls
  /\ inflight' = inflight \cup {req}
  /\ UNCHANGED <<messages, now, allocated, calls, request, response, env,
                 logFile, exchanges>>

\* a /recv that waits for a message instead of answering an empty mailbox
RouteRecvWaits(req) ==
  \/ req.route = "POST /send" /\ PostSend(req.body)
  \/ /\ req.route = "GET /recv"
     /\ GetOrEmpty(messages, RecipientKey(StringOf(req.query.recipient))) # <<>>
     /\ GetRecv(req.query)
  \/ req.route = "GET /health" /\ GetHealth

\* app.post('/send', ...), app.get('/recv', ...), app.get('/health', ...)
Route(req) ==
  \/ req.route = "POST /send" /\ PostSend(req.body)
  \/ req.route = "GET /recv" /\ GetRecv(req.query)
  \/ req.route = "GET /health" /\ GetHealth

\* the event loop runs the handler of a request in flight
Dispatch(req) == req \in inflight /\ Route(req)

LiveInit == Init /\ env = EnvLive

LiveNext ==
  \/ \E req \in Requests : Arrive(req)
  \/ \E req \in Requests : Dispatch(req)

\* the event loop runs the handler of every request it has taken in
LiveSpec ==
  LiveInit /\ [][LiveNext]_vars /\ \A req \in LiveRequests : WF_vars(Dispatch(req))

----------------------------------------------------------------------------
(* The echo server.  Every request passes the logging middleware and the   *)
(* API key middleware when it arrives; express.json() then reads a JSON    *)
(* body, which takes further turns of the event loop, and the route        *)
(* handler runs when the body is parsed.                                   *)

\* process.env.API_KEY || 'your-secret-api-key-here'
VALID_API_KEY == <<"k", "e", "y">>

sKEY   == <<"K", "E", "Y">>
sGET   == <<"G", "E", "T">>
sPOST  == <<"P", "O", "S", "T">>
sRoot  == <<"/">>
sEcho  == <<"/", "e", "c", "h", "o">>
sNowhere == <<"/", "n", "o">>
sLocal == <<":", ":", "1">>
sUnknown == <<"u", "n", "k", "n", "o", "w", "n">>

\* a parsed JSON object, named by its content
Obj(name) == [type |-> "object", str |-> name, num |-> 0, items |-> <<>>]

\* the body of a request as express.json() meets it: nothing to parse, a
\* JSON text of an object, or a text JSON.parse rejects
NoPayload == [kind |-> "none", value |-> Undefined]
JsonPayload(v) == [kind |-> "json", value |-> v]
MalformedPayload == [kind |-> "malformed", value |-> Undefined]

EchoRequest(method, url, apiKey, payload, ip) ==
  [method |-> method, url |-> url, apiKey |-> apiKey, payload |-> payload, ip |-> ip]

EchoRequests ==
  {EchoRequest(sGET, sRoot, k, NoPayload, Str(sLocal)) :
     k \in {Undefined, Str(sEmpty), Str(VALID_API_KEY), Str(sKEY)}}
  \cup {EchoRequest(sPOST, sEcho, Str(VALID_API_KEY), b, Str(sLocal)) :
     b \in {JsonPayload(Obj(sM1)), JsonPayload(Obj(sM2)), MalformedPayload}}
  \cup {EchoRequest(sGET, sNowhere, Str(VALID_API_KEY), NoPayload, Undefined)}

\* number.toString().padStart(3, '0')
Pad3(t) ==
  LET d == NatToString(t)
  IN  [i \in 1..(3 - Len(d)) |-> "0"] \o d

\* new Date(t).toISOString(), for a clock that starts at the epoch
ToISOString(t) ==
  <<"1","9","7","0","-","0","1","-","0","1","T","0","0",":","0","0",":","0","0",".">>
    \o Pad3(t) \o <<"Z">>

\* `[${timestamp}] ${req.method} ${req.url} - ${req.ip || 'unknown'}\n`
LogEntry(t, req) ==
  <<"[">> \o ToISOString(t) \o <<"]", " ">> \o req.method \o <<" ">> \o req.url
    \o <<" ", "-", " ">> \o (IF Truthy(req.ip) THEN req.ip.str ELSE sUnknown)
    \o <<"\n">>

\* a log written with writeFileSync
AppendFileSyncOverwrites(file, data) == data

\* fs.appendFileSync(logFile, logEntry)
AppendFileSync(file, data) == file \o data

\* a key compared without regard to case
SameKeyIgnoringCase(apiKey, valid) == ToLowerCase(apiKey) = ToLowerCase(valid)

\* the comparison of apiKey !== VALID_API_KEY
SameKey(apiKey, valid) == apiKey = valid

EchoResponse(status, error, body, handler) ==
  [status |-> status, error |-> error, body |-> body, handler |-> handler]

\* no response yet: express.json() is reading the body
EchoPending == EchoResponse(0, "", Undefined, "none")
KeyRequired == EchoResponse(401, "API key is required", Undefined, "none")
KeyInvalid == EchoResponse(401, "Invalid API key", Undefined, "none")
\* express.json() hands the parse error to the default error handler
BadJson == EchoResponse(400, "", Undefined, "none")
\* no route matches
NotFound == EchoResponse(404, "", Undefined, "none")

\* app.post('/echo'): res.json(req.body);  app.get('/'): the banner
RouteEcho(req, body) ==
  IF req.method = sPOST /\ req.url = sEcho
  THEN EchoResponse(200, "", body, "echo")
  ELSE IF req.method = sGET /\ req.url = sRoot
       THEN EchoResponse(200, "", Obj(<<"b", "a", "n", "n", "e", "r">>), "root")
       ELSE NotFound

\* a body kept where the requests share it: the one that arrived last
ParsedBodyOfLatest(i) == exchanges[Len(exchanges)].req.payload.value

\* req.body as express.json() sets it on request i
ParsedBody(i) == exchanges[i].req.payload.value

\* the logging middleware, the API key middleware, and, for a request
\* without a JSON body, express.json() passing it on to the route
EchoArrive(req) ==
  /\ Len(exchanges) < MaxEchoRequests
  /\ \E t \in now..env.clockMax :
       /\ now' = t
       /\ logFile' = AppendFileSync(logFile, LogEntry(t, req))
  /\ \/ /\ ~Truthy(req.apiKey)
        /\ exchanges' = Append(exchanges, [req |-> req, res |-> KeyRequired])
     \/ /\ Truthy(req.apiKey)
        /\ ~SameKey(req.apiKey.str, VALID_API_KEY)
        /\ exchanges' = Append(exchanges, [req |-> req, res |-> KeyInvalid])
     \/ /\ Truthy(req.apiKey)
        /\ SameKey(req.apiKey.str, VALID_API_KEY)
        /\ req.payload.kind = "none"
        /\ exchanges' = Append(exchanges, [req |-> req, res |-> RouteEcho(req, Undefined)])
     \/ /\ Truthy(req.apiKey)
        /\ SameKey(req.apiKey.str, VALID_API_KEY)
        /\ req.payload.kind # "none"
        /\ exchanges' = Append(exchanges, [req |-> req, res |-> EchoPending])
  /\ UNCHANGED <<messages, allocated, calls, request, response, env, inflight>>

\* express.json() has read the body of request i: a parse error is answered
\* 400, a parsed body goes to the route
EchoBodyParsed(i) ==
  /\ exchanges[i].res = EchoPending
  /\ \/ /\ exchanges[i].req.payload.kind = "malformed"
        /\ exchanges' = [exchanges EXCEPT ![i].res = BadJson]
     \/ /\ exchanges[i].req.payload.kind = "json"
        /\ exchanges' = [exchanges EXCEPT
                           ![i].res = RouteEcho(exchanges[i].req, ParsedBody(i))]
  /\ UNCHANGED <<messages, now, allocated, calls, request, response, env,
                 inflight, logFile>>

EchoInit == Init /\ env = EnvIds

EchoNext ==
  \/ \E req \in EchoRequests : EchoArrive(req)
  \/ \E i \in DOMAIN exchanges : EchoBodyParsed(i)

EchoSpec == EchoInit /\ [][EchoNext]_vars

----------------------------------------------------------------------------
(* The history read back: what was sent to, returned for and is queued     *)
(* under a recipient key.                                                  *)

SeqRange(q) == {q[i] : i \in DOMAIN q}
Last(q) == q[Len(q)]

SendCalls == {i \in DOMAIN calls : calls[i].op = "Send"}
ReceiveCalls == {i \in DOMAIN calls : calls[i].op = "Receive"}
KnownKeys == DOMAIN messages \cup {calls[i].key : i \in DOMAIN calls}

\* the Message objects of the Sends answered 201 under key r, up to call p
SentUpTo(p, r) ==
  {calls[i].msgs[1] : i \in {j \in SendCalls : j <= p /\ calls[j].key = r
                                               /\ calls[j].res.status = 201}}
\* the Message objects the Receives under key r handed out, up to call p
ReturnedUpTo(p, r) ==
  UNION {SeqRange(calls[i].msgs) : i \in {j \in ReceiveCalls : j <= p /\ calls[j].key = r}}

SentTo(r) == SentUpTo(Len(calls), r)
ReturnedFor(r) == ReturnedUpTo(Len(calls), r)
QueuedFor(r) == IF r \in DOMAIN messages THEN SeqRange(messages[r]) ELSE {}
AllQueued == UNION {SeqRange(messages[k]) : k \in DOMAIN messages}

\* the calls on key r, as positions of the history
CallsOn(r) == {i \in DOMAIN calls : calls[i].key = r}
LastCallOn(r) == CHOOSE i \in CallsOn(r) : \A j \in CallsOn(r) : j <= i

----------------------------------------------------------------------------
(* C1: no loss.  For every recipient key, in every reachable state, the    *)
(* messages returned so far by the Receives on the key together with the   *)
(* messages queued under it are exactly the messages the accepted Sends    *)
(* filed under it; when the last call on the key is a Receive, the         *)
(* returned messages alone are exactly the messages sent.                  *)
C1_NoLoss ==
  \A r \in KnownKeys :
    /\ ReturnedFor(r) \cup QueuedFor(r) = SentTo(r)
    /\ (CallsOn(r) # {} /\ calls[LastCallOn(r)].op = "Receive")
         => ReturnedFor(r) = SentTo(r)

\* a key with a drained message, then a Send, then a drain of both
C1_Witness ==
  \E r \in KnownKeys :
    /\ Cardinality(SentTo(r)) >= 2
    /\ Cardinality({i \in ReceiveCalls : calls[i].key = r /\ calls[i].msgs # <<>>}) >= 2
    /\ calls[LastCallOn(r)].op = "Receive"

(* C2: exactly-once delivery.  No message object is handed out by two      *)
(* Receive calls, nor twice by one.                                        *)
C2_ExactlyOnce ==
  \A i \in ReceiveCalls, j \in ReceiveCalls :
    \A p \in DOMAIN calls[i].msgs, q \in DOMAIN calls[j].msgs :
      calls[i].msgs[p].ref = calls[j].msgs[q].ref => (i = j /\ p = q)

\* a key drained, sent to again, and asked twice more
C2_Witness ==
  \E i \in ReceiveCalls, j \in ReceiveCalls, k \in ReceiveCalls :
    /\ i < j /\ j < k
    /\ calls[i].key = calls[j].key /\ calls[j].key = calls[k].key
    /\ calls[i].msgs # <<>>

(* C3: exactly-one-drain.  When exactly one message is queued under a key  *)
(* and N Receives on that key follow with no Send to it among them,        *)
(* exactly one of them answers count 1 and all the others count 0.         *)
QueuedAfter(p, r) == Cardinality(SentUpTo(p, r) \ ReturnedUpTo(p, r))

C3_ExactlyOneDrain ==
  \A r \in KnownKeys : \A p \in DOMAIN calls, q \in DOMAIN calls :
    LET window == {k \in (p + 1)..q : calls[k].key = r} IN
    ( /\ p < q
      /\ QueuedAfter(p, r) = 1
      /\ window # {}
      /\ \A k \in window : calls[k].op = "Receive" )
    => /\ Cardinality({k \in window : calls[k].res.data.count = 1}) = 1
       /\ \A k \in window : calls[k].res.data.count \in {0, 1}

\* one message queued, then three Receives on its key
C3_Witness ==
  \E r \in KnownKeys : \E p \in DOMAIN calls :
    /\ QueuedAfter(p, r) = 1
    /\ p + 3 <= Len(calls)
    /\ \A k \in (p + 1)..(p + 3) : calls[k].op = "Receive" /\ calls[k].key = r

(* C4: Receive is an atomic drain.  Over every step, a message queued      *)
(* before the step is afterwards either still queued or in the result of   *)
(* the Receive that ran in the step, never both and never neither.         *)
ReturnedInStep(m) ==
  /\ Len(calls') = Len(calls) + 1
  /\ Last(calls').op = "Receive"
  /\ m \in SeqRange(Last(calls').msgs)

C4_AtomicDrain ==
  [][\A m \in AllQueued : (m \in AllQueued') # ReturnedInStep(m)]_vars

\* a drain of two messages that left another mailbox in place
C4_Witness ==
  /\ calls # <<>>
  /\ Last(calls).op = "Receive"
  /\ Len(Last(calls).msgs) >= 2
  /\ messages # <<>>

(* C5: order preservation.  A Receive returns, in the order in which       *)
(* their Sends were accepted, the messages sent to its key since the       *)
(* previous Receive on that key, and lists them in that order in its       *)
(* response.                                                               *)
PrevDrain(j) ==
  LET earlier == {i \in ReceiveCalls : i < j /\ calls[i].key = calls[j].key}
  IN  IF earlier = {} THEN 0 ELSE CHOOSE i \in earlier : \A k \in earlier : k <= i

RECURSIVE SendsBetween(_, _, _)
SendsBetween(i, j, r) ==
  IF i + 1 >= j THEN <<>>
  ELSE IF calls[i + 1].op = "Send" /\ calls[i + 1].key = r
       THEN <<calls[i + 1].msgs[1]>> \o SendsBetween(i + 1, j, r)
       ELSE SendsBetween(i + 1, j, r)

C5_OrderPreserved ==
  \A j \in ReceiveCalls :
    LET sent == SendsBetween(PrevDrain(j), j, calls[j].key)
        listed == calls[j].res.data.messages
    IN  /\ calls[j].msgs = sent
        /\ Len(listed) = Len(sent)
        /\ \A k \in DOMAIN sent :
             /\ listed[k].id = sent[k].id
             /\ listed[k].content = sent[k].content
             /\ listed[k].timestamp = sent[k].timestamp

\* three Sends to one key with contents m1, m2, m1, then the drain
C5_Witness ==
  \E j \in ReceiveCalls :
    /\ Len(calls[j].msgs) = 3
    /\ calls[j].msgs[1].content # calls[j].msgs[2].content

(* C6: case-insensitivity.  Recipient names that differ only in letter     *)
(* case address the same mailbox, for Send and Receive alike: a message    *)
(* sent under one spelling is returned by the next Receive under any case  *)
(* variant of it, and the recipient reported in both responses is the      *)
(* lower-cased key.                                                        *)
SameLetter(c, d) ==
  c = d \/ \E k \in DOMAIN Uppers : {c, d} = {Uppers[k], Lowers[k]}
CaseVariant(s, t) ==
  Len(s) = Len(t) /\ \A i \in DOMAIN s : SameLetter(s[i], t[i])
NoUpperCase(s) == \A i \in DOMAIN s : \A k \in DOMAIN Uppers : s[i] # Uppers[k]

\* the recipient as the caller wrote it
RawRecipient(c) ==
  IF c.op = "Send" THEN c.req.body.recipient ELSE c.req.query.recipient
NamedByString == {i \in DOMAIN calls : RawRecipient(calls[i]).type = "string"}

C6_CaseInsensitive ==
  /\ \A i \in NamedByString, j \in NamedByString :
       CaseVariant(RawRecipient(calls[i]).str, RawRecipient(calls[j]).str)
         => calls[i].key = calls[j].key
  /\ \A i \in NamedByString :
       /\ calls[i].res.data.recipient = calls[i].key
       /\ NoUpperCase(calls[i].key)
       /\ CaseVariant(calls[i].key, RawRecipient(calls[i]).str)
  /\ \A i \in NamedByString \cap SendCalls, j \in NamedByString \cap ReceiveCalls :
       (i < j /\ CaseVariant(RawRecipient(calls[i]).str, RawRecipient(calls[j]).str))
         => \E k \in ReceiveCalls :
              i < k /\ k <= j /\ calls[k].key = calls[j].key
              /\ calls[i].msgs[1] \in SeqRange(calls[k].msgs)

\* Send("A", m) answered with recipient "a", then Receive("a") returning m
C6_Witness ==
  \E i \in SendCalls, j \in ReceiveCalls :
    /\ i < j
    /\ RawRecipient(calls[i]) = Str(sA)
    /\ RawRecipient(calls[j]) = Str(sa)
    /\ calls[i].res.data.recipient = sa
    /\ calls[i].msgs[1] \in SeqRange(calls[j].msgs)

(* C7: every recipient key under which a message is filed or looked up is  *)
(* case-folded and trimmed: each key of the store, and each key a call     *)
(* used, equals its own lower-cased, whitespace-trimmed form.              *)
C7_KeysFoldedAndTrimmed ==
  \A k \in KnownKeys : k = ToLowerCase(Trim(k))

(* C8: message ids are unique.  No two messages created by Send in one     *)
(* process lifetime carry the same id, Sends within one clock tick and     *)
(* messages already drained included.                                      *)
C8_IdsUnique ==
  \A i \in SendCalls, j \in SendCalls :
    i # j => calls[i].msgs[1].id # calls[j].msgs[1].id

(* C9: a Send whose recipient or content is empty after trimming           *)
(* whitespace fails validation and never reaches the store.                *)
BlankString(v) == v.type = "string" /\ Trim(v.str) = <<>>
BlankSend(req) ==
  /\ req.route = "POST /send"
  /\ req.body.present
  /\ (BlankString(req.body.recipient) \/ BlankString(req.body.message))

C9_BlankSendRejected ==
  /\ BlankSend(request) => response.status = 400
  /\ \A i \in SendCalls : ~BlankSend(calls[i].req)

(* C10: validation boundary of Send.  A POST /send with a parsed body      *)
(* whose recipient is missing, not a string or the empty string is         *)
(* answered 400 'Invalid recipient'; one with a valid recipient whose      *)
(* message is missing, not a string or the empty string is answered 400    *)
(* 'Invalid message'; in both cases no message is created and the store is *)
(* exactly as before the request.                                          *)
MissingOrNotAString(v) == v.type # "string" \/ v.str = <<>>

C10_SendValidation ==
  [][LET b == request'.body IN
     /\ (request'.route = "POST /send" /\ b.present /\ MissingOrNotAString(b.recipient))
          => /\ response'.status = 400
             /\ response'.error = "Invalid recipient"
             /\ UNCHANGED <<messages, allocated, calls>>
     /\ (request'.route = "POST /send" /\ b.present
         /\ ~MissingOrNotAString(b.recipient) /\ MissingOrNotAString(b.message))
          => /\ response'.status = 400
             /\ response'.error = "Invalid message"
             /\ UNCHANGED <<messages, allocated, calls>>
    ]_vars

\* a numeric recipient refused while a mailbox holds a message
C10_Witness ==
  /\ request.route = "POST /send"
  /\ request.body.present
  /\ request.body.recipient.type = "number"
  /\ response.status = 400
  /\ response.error = "Invalid recipient"
  /\ messages # <<>>

(* C11: validation boundary of Receive.  A GET /recv whose recipient       *)
(* parameter is missing, the empty string or whitespace only is answered   *)
(* 400 'Invalid recipient' and drains nothing: every mailbox is as before. *)
OnlyWhiteSpace(s) == \A i \in DOMAIN s : s[i] \in WhiteSpace
MissingOrBlankParameter(v) ==
  v.type = "undefined" \/ (v.type = "string" /\ OnlyWhiteSpace(v.str))

C11_RecvValidation ==
  [][(request'.route = "GET /recv" /\ MissingOrBlankParameter(request'.query.recipient))
       => /\ response'.status = 400
          /\ response'.error = "Invalid recipient"
          /\ UNCHANGED <<messages, allocated, calls>>
    ]_vars

\* a whitespace-only parameter refused while a mailbox holds a message
C11_Witness ==
  /\ request.route = "GET /recv"
  /\ request.query.recipient = Str(sBlank)
  /\ response.status = 400
  /\ response.error = "Invalid recipient"
  /\ messages # <<>>

(* C12: idempotent empty read.  A Receive on a key that was never used,    *)
(* or whose messages were all handed out already, answers 200 with an      *)
(* empty list and count 0 and leaves the store unchanged, however often    *)
(* it is repeated.                                                         *)
NothingPending(r) == SentTo(r) \ ReturnedFor(r) = {}

C12_EmptyRead ==
  [][(/\ Len(calls') = Len(calls) + 1
      /\ Last(calls').op = "Receive"
      /\ NothingPending(Last(calls').key))
       => /\ response'.status = 200
          /\ response'.data.messages = <<>>
          /\ response'.data.count = 0
          /\ Last(calls').msgs = <<>>
          /\ messages' = messages
    ]_vars

\* a key drained once and then read empty twice in a row
C12_Witness ==
  \E p \in DOMAIN calls :
    /\ p + 2 = Len(calls)
    /\ calls[p].op = "Receive" /\ calls[p].msgs # <<>>
    /\ \A k \in {p + 1, p + 2} :
         /\ calls[k].op = "Receive" /\ calls[k].key = calls[p].key
         /\ calls[k].res.status = 200 /\ calls[k].res.data.count = 0

(* C13: stats accuracy.  In every reachable state the size of the Map,     *)
(* which GET /health reports as totalRecipients, is the number of keys     *)
(* that hold at least one undelivered message: a first Send to a key       *)
(* raises it by one, the drain of the key lowers it by one.                *)
KeysWithPending == {r \in KnownKeys : ~NothingPending(r)}

C13_StatsAccurate ==
  /\ TotalRecipients(messages) = Cardinality(KeysWithPending)
  /\ request.route = "GET /health"
       => /\ response.status = 200
          /\ response.totalRecipients = Cardinality(KeysWithPending)

\* two recipients sent to, one of them drained, and /health answering 1
C13_Witness ==
  /\ request.route = "GET /health"
  /\ response.totalRecipients = 1
  /\ Cardinality({calls[i].key : i \in SendCalls}) = 2
  /\ \E j \in ReceiveCalls : calls[j].msgs # <<>>

(* C14: in every Receive response, on the empty path and on the drain      *)
(* path alike, count equals the length of the returned messages list.      *)
C14_CountIsLength ==
  /\ \A j \in ReceiveCalls :
       calls[j].res.data.count = Len(calls[j].res.data.messages)
  /\ (request.route = "GET /recv" /\ response.status = 200)
       => response.data.count = Len(response.data.messages)

\* an empty read and a drain of two messages in one history
C14_Witness ==
  /\ \E j \in ReceiveCalls : calls[j].res.data.count = 0
  /\ \E j \in ReceiveCalls : calls[j].res.data.count = 2

(* C15: per-recipient isolation.  A Receive on a key returns exactly the   *)
(* messages queued under that key, all of them sent to that key, and       *)
(* leaves the mailbox of every other key as it was, content and order.     *)
C15_Isolation ==
  [][(Len(calls') = Len(calls) + 1 /\ Last(calls').op = "Receive")
       => LET c == Last(calls') IN
          /\ SeqRange(c.msgs) = QueuedFor(c.key)
          /\ \A m \in SeqRange(c.msgs) : m.recipient = c.key /\ m \in SentTo(c.key)
          /\ DOMAIN messages' \subseteq DOMAIN messages
          /\ \A k \in DOMAIN messages \ {c.key} :
               k \in DOMAIN messages' /\ messages'[k] = messages[k]
    ]_vars

\* one key drained while another keeps its two messages
C15_Witness ==
  /\ calls # <<>>
  /\ Last(calls).op = "Receive"
  /\ Last(calls).msgs # <<>>
  /\ \E k \in DOMAIN messages : k # Last(calls).key /\ Len(messages[k]) = 2

(* C16: a Send request is answered 201 exactly when it appended one new    *)
(* message to the store; the id, normalized recipient and timestamp of     *)
(* the 201 response are those of the appended message; a Send answered     *)
(* with any other status appended nothing.                                 *)
QueuedSlots ==
  UNION {{<<k, i>> : i \in DOMAIN messages[k]} : k \in DOMAIN messages}

C16_SendResponse ==
  [][request'.route = "POST /send"
       => /\ (response'.status = 201)
               <=> /\ Cardinality(QueuedSlots') = Cardinality(QueuedSlots) + 1
                   /\ AllQueued \subseteq AllQueued'
          /\ response'.status = 201
               => LET key == response'.data.recipient IN
                  /\ key \in DOMAIN messages'
                  /\ Last(messages'[key]) \notin AllQueued
                  /\ Last(messages'[key]).id = response'.data.id
                  /\ Last(messages'[key]).recipient = key
                  /\ Last(messages'[key]).timestamp = response'.data.timestamp
          /\ response'.status # 201 => messages' = messages
    ]_vars

\* a Send answered 201 on top of a queued message, under a running clock
C16_Witness ==
  /\ request.route = "POST /send"
  /\ response.status = 201
  /\ response.data.timestamp = 1
  /\ Len(messages[response.data.recipient]) = 2

(* C17: Send is atomic and immediately visible.  Every Send to a key that  *)
(* was answered 201 before a Receive on that key ran is in the result of   *)
(* the first such Receive: k accepted Sends, in whatever order their       *)
(* handlers ran, followed by one Receive give count k.  No state holds an  *)
(* entry whose message is not in it yet.                                   *)
SendsSinceDrain(j) ==
  {i \in SendCalls : /\ PrevDrain(j) < i /\ i < j
                     /\ calls[i].key = calls[j].key
                     /\ calls[i].res.status = 201}

C17_SendVisible ==
  /\ \A j \in ReceiveCalls :
       /\ \A i \in SendsSinceDrain(j) :
            /\ calls[i].msgs[1] \in SeqRange(calls[j].msgs)
            /\ \E k \in DOMAIN calls[j].res.data.messages :
                 calls[j].res.data.messages[k].id = calls[i].res.data.id
       /\ calls[j].res.data.count = Cardinality(SendsSinceDrain(j))
  /\ \A k \in DOMAIN messages : messages[k] # <<>>

\* three accepted Sends to one key, then the Receive that answers count 3
C17_Witness ==
  /\ Len(calls) = 4
  /\ \A i \in 1..3 : calls[i].op = "Send" /\ calls[i].key = calls[4].key
  /\ calls[4].op = "Receive"
  /\ calls[4].res.data.count = 3

(* C18: an unexpected failure is answered with a generic 500 'Internal     *)
(* server error' and does not change the store; a POST /send that arrives  *)
(* without a parsed body is such a failure: 500, and no mailbox is created *)
(* or modified.                                                            *)
C18_FailureLeavesStore ==
  [][/\ (request'.route = "POST /send" /\ ~request'.body.present)
          => /\ response'.status = 500
             /\ response'.error = "Internal server error"
             /\ UNCHANGED <<messages, allocated, calls>>
     /\ response'.status = 500 => UNCHANGED <<messages, allocated, calls>>
    ]_vars

\* a body-less POST /send answered 500 while a mailbox holds a message
C18_Witness ==
  /\ request.route = "POST /send"
  /\ ~request.body.present
  /\ response.status = 500
  /\ messages # <<>>

(* C19: messages are immutable between Send and Receive.  The id, content  *)
(* and timestamp of every message a Receive returns are the values fixed   *)
(* when its Send was accepted: the id and timestamp of the 201 response    *)
(* and the content of the request, whatever ran in between.                *)
C19_Immutable ==
  \A j \in ReceiveCalls :
    /\ Len(calls[j].res.data.messages) = Len(calls[j].msgs)
    /\ \A k \in DOMAIN calls[j].msgs :
         \E i \in SendCalls :
           /\ i < j
           /\ calls[i].msgs[1].ref = calls[j].msgs[k].ref
           /\ calls[j].msgs[k] = calls[i].msgs[1]
           /\ calls[j].res.data.messages[k].id = calls[i].res.data.id
           /\ calls[j].res.data.messages[k].timestamp = calls[i].res.data.timestamp
           /\ calls[j].res.data.messages[k].content = calls[i].req.body.message.str

\* a message returned after the clock moved on and another Send ran
C19_Witness ==
  \E j \in ReceiveCalls : \E k \in DOMAIN calls[j].msgs :
    /\ calls[j].res.data.messages[k].timestamp < now
    /\ Len(calls[j].msgs) >= 2

(* C20: a GET /recv whose recipient value is not a plain string (a         *)
(* repeated parameter) is coerced to its string form and case-folded       *)
(* before the lookup: when the coerced value is not empty after trimming   *)
(* the answer is 200 with the coerced key and the contents of its mailbox, *)
(* never 400.                                                              *)
C20_CoercedRecipient ==
  [][LET v == request'.query.recipient IN
     (/\ request'.route = "GET /recv"
      /\ v.type \notin {"string", "undefined"}
      /\ ~OnlyWhiteSpace(StringOf(v)))
       => /\ response'.status = 200
          /\ NoUpperCase(response'.data.recipient)
          /\ CaseVariant(response'.data.recipient, StringOf(v))
          /\ LET queued == GetOrEmpty(messages, response'.data.recipient) IN
             /\ response'.data.count = Len(queued)
             /\ Len(response'.data.messages) = Len(queued)
             /\ \A k \in DOMAIN queued :
                  /\ response'.data.messages[k].id = queued[k].id
                  /\ response'.data.messages[k].content = queued[k].content
    ]_vars

\* ?recipient=A&recipient=b draining the mailbox filed under "a,b"
C20_Witness ==
  /\ request.route = "GET /recv"
  /\ request.query.recipient = Arr(<<sA, sb>>)
  /\ response.status = 200
  /\ response.data.recipient = <<"a", ",", "b">>
  /\ response.data.count = 1

(* C25: in every reachable state each message stored in the Map sits under *)
(* the key equal to its own recipient field, in no other mailbox, and at   *)
(* most once in its mailbox.                                               *)
C25_FiledUnderOwnKey ==
  \A k \in DOMAIN messages : \A p \in DOMAIN messages[k] :
    /\ messages[k][p].recipient = k
    /\ \A k2 \in DOMAIN messages : \A q \in DOMAIN messages[k2] :
         messages[k2][q].ref = messages[k][p].ref => (k2 = k /\ q = p)

\* two mailboxes, one of them holding two messages
C25_Witness ==
  \E k \in DOMAIN messages, k2 \in DOMAIN messages :
    k # k2 /\ Len(messages[k]) >= 2 /\ Len(messages[k2]) >= 1

(* C26: in every reachable state every key present in the Map holds at     *)
(* least one message, so the size of the Map is the number of keys with    *)
(* messages sent and not yet handed out.                                   *)
C26_NoEmptyMailbox ==
  /\ \A k \in DOMAIN messages : Len(messages[k]) >= 1
  /\ Cardinality(DOMAIN messages)
       = Cardinality({r \in KnownKeys : SentTo(r) \ ReturnedFor(r) # {}})

\* one key drained and gone from the Map while another key still queues
C26_Witness ==
  /\ \E r \in KnownKeys : r \notin DOMAIN messages /\ ReturnedFor(r) # {}
  /\ DOMAIN messages # {}

(* C27: every message accepted by Send can be retrieved: for every key     *)
(* that holds messages there is a GET /recv request that passes the        *)
(* validation of /recv and takes that key out of the Map.                  *)
DrainOf(k, query) == GetRecv(query) /\ ~Has(messages', k)

C27_EveryMailboxReachable ==
  \A k \in DOMAIN messages :
    Len(calls) < MaxCalls
      => \E query \in env.queries \cup {Query(Str(k))} : ENABLED DrainOf(k, query)

(* C28: after a Receive that drained a key the key is absent from the Map; *)
(* the next Send to the key starts a mailbox that holds only its message,  *)
(* and a Receive following that Send returns exactly that message, with    *)
(* count 1 and none of the messages drained before.                        *)
NextCallOn(r, j) ==
  LET later == {i \in CallsOn(r) : i > j}
  IN  IF later = {} THEN 0 ELSE CHOOSE i \in later : \A n \in later : i <= n

C28_FreshMailbox ==
  \A j \in ReceiveCalls :
    calls[j].msgs # <<>> =>
      LET r == calls[j].key
          i == NextCallOn(r, j)
          n == IF i = 0 THEN 0 ELSE NextCallOn(r, i)
      IN  /\ i = 0 => r \notin DOMAIN messages
          /\ (i # 0 /\ calls[i].op = "Send" /\ n = 0)
               => (r \in DOMAIN messages /\ messages[r] = calls[i].msgs)
          /\ (i # 0 /\ calls[i].op = "Send" /\ n # 0 /\ calls[n].op = "Receive")
               => /\ calls[n].msgs = calls[i].msgs
                  /\ calls[n].res.data.count = 1
                  /\ Len(calls[n].res.data.messages) = 1
                  /\ calls[n].res.data.messages[1].id = calls[i].res.data.id
                  /\ calls[n].res.data.messages[1].content = calls[i].req.body.message.str
                  /\ SeqRange(calls[n].msgs) \cap SeqRange(calls[j].msgs) = {}

\* a drain, the next Send to the key, and the Receive that follows it
C28_Witness ==
  \E j \in ReceiveCalls :
    /\ calls[j].msgs # <<>>
    /\ NextCallOn(calls[j].key, j) # 0
    /\ calls[NextCallOn(calls[j].key, j)].op = "Send"
    /\ NextCallOn(calls[j].key, NextCallOn(calls[j].key, j)) # 0
    /\ calls[NextCallOn(calls[j].key, NextCallOn(calls[j].key, j))].op = "Receive"

(* C29: frame of Send.  A Send answered 201 changes only the mailbox of    *)
(* the case-folded recipient, by appending the new message at its end:     *)
(* the messages already queued there keep their place, and the mailbox of  *)
(* every other key is what it was.                                         *)
C29_SendFrame ==
  [][(request'.route = "POST /send" /\ response'.status = 201)
       => LET key == response'.data.recipient
              old == GetOrEmpty(messages, key)
          IN  /\ NoUpperCase(key)
              /\ CaseVariant(key, request'.body.recipient.str)
              /\ DOMAIN messages' = DOMAIN messages \cup {key}
              /\ Len(messages'[key]) = Len(old) + 1
              /\ \A p \in DOMAIN old : messages'[key][p] = old[p]
              /\ Last(messages'[key]).content = request'.body.message.str
              /\ \A k \in DOMAIN messages \ {key} : messages'[k] = messages[k]
    ]_vars

\* a Send onto a mailbox that already queues a message, next to another mailbox
C29_Witness ==
  /\ request.route = "POST /send"
  /\ response.status = 201
  /\ Len(messages[response.data.recipient]) >= 2
  /\ DOMAIN messages # {response.data.recipient}

(* C30: Stats is read-only.  A GET /health leaves the Map and the history  *)
(* of the store as they were and answers 200 with status "healthy",        *)
(* whatever the Map holds.                                                 *)
C30_HealthReadOnly ==
  [][request'.route = "GET /health"
       => /\ messages' = messages
          /\ allocated' = allocated
          /\ calls' = calls
          /\ response'.status = 200
          /\ response'.status_text = "healthy"
    ]_vars

\* /health asked while one mailbox queues two messages and another was drained
C30_Witness ==
  /\ request.route = "GET /health"
  /\ response.status = 200
  /\ \E k \in DOMAIN messages : Len(messages[k]) = 2
  /\ \E j \in ReceiveCalls : calls[j].msgs # <<>> /\ calls[j].key \notin DOMAIN messages

(* C21: no operation blocks.  Every Send, Receive and Stats request the    *)
(* server has taken in gets its response, whatever other requests are in   *)
(* flight: its handler can run in every state in which it waits, and it    *)
(* eventually has run and written a response for it.                       *)
C21_NoOperationBlocks ==
  /\ [](\A req \in inflight : ENABLED Dispatch(req))
  /\ \A req \in LiveRequests :
       (req \in inflight)
         ~> (req \notin inflight /\ request = req /\ response.status # 0)

\* a Receive is answered while two other requests wait for their handlers
C21_Witness ==
  /\ Cardinality(inflight) = 2
  /\ request.route = "GET /recv"
  /\ response.status = 200
  /\ request \notin inflight
  /\ SendRequest(Body(Str(sa), Str(sM1))) \in inflight

----------------------------------------------------------------------------
(* The request log read back: logContent.split('\n').                      *)

FirstNewline(text) ==
  IF \E i \in DOMAIN text : text[i] = "\n"
  THEN CHOOSE i \in DOMAIN text : text[i] = "\n" /\ \A j \in 1..(i - 1) : text[j] # "\n"
  ELSE 0

RECURSIVE SplitLines(_)
SplitLines(text) ==
  IF text = <<>> THEN <<>>
  ELSE LET i == FirstNewline(text)
       IN  IF i = 0 THEN <<text>>
           ELSE <<SubSeq(text, 1, i - 1)>> \o SplitLines(SubSeq(text, i + 1, Len(text)))

Contains(text, part) ==
  \E i \in 0..(Len(text) - Len(part)) : SubSeq(text, i + 1, i + Len(part)) = part

\* the part of a log line that names the request
MethodAndUrl(req) == <<"]", " ">> \o req.method \o <<" ">> \o req.url \o <<" ", "-", " ">>

(* C22: the request log of the echo server holds exactly one line for      *)
(* every request received, the lines stand in the order in which the       *)
(* requests arrived, and a request the API key gate answered 401 has its   *)
(* line like any other.                                                    *)
C22_RequestLog ==
  LET lines == SplitLines(logFile) IN
  /\ Len(lines) = Len(exchanges)
  /\ \A i \in DOMAIN exchanges :
       /\ Contains(lines[i], MethodAndUrl(exchanges[i].req))
       /\ lines[i][1] = "["
  /\ \A i \in DOMAIN exchanges : \A j \in DOMAIN exchanges :
       i < j => \E t \in 0..MaxClock, u \in 0..MaxClock :
                  /\ t <= u
                  /\ Contains(lines[i], ToISOString(t))
                  /\ Contains(lines[j], ToISOString(u))

\* a rejected GET / between a POST /echo still being parsed and a GET /no
C22_Witness ==
  /\ Len(exchanges) = 3
  /\ exchanges[1].req.url = sEcho /\ exchanges[1].res = EchoPending
  /\ exchanges[2].req.url = sRoot /\ exchanges[2].res.status = 401
  /\ exchanges[3].req.url = sNowhere
  /\ Contains(logFile, ToISOString(1))

(* C23: the API key gate.  A request without an x-api-key header, or with  *)
(* an empty one, is answered 401 "API key is required"; a request with a   *)
(* key other than the configured key, a case variant of it included, is    *)
(* answered 401 "Invalid API key"; in both cases no route handler runs,    *)
(* and a request a handler ran for carried exactly the configured key.     *)
C23_AuthGate ==
  \A i \in DOMAIN exchanges :
    LET key == exchanges[i].req.apiKey
        res == exchanges[i].res
    IN  /\ (key.type = "undefined" \/ (key.type = "string" /\ Len(key.str) = 0))
             => /\ res.status = 401
                /\ res.error = "API key is required"
                /\ res.handler = "none"
        /\ (key.type = "string" /\ Len(key.str) > 0 /\ key.str # VALID_API_KEY)
             => /\ res.status = 401
                /\ res.error = "Invalid API key"
                /\ res.handler = "none"
        /\ (res.handler # "none" \/ res.status \notin {0, 401})
             => key = Str(VALID_API_KEY)

\* a request without a key, one with the key in upper case, one with the key
C23_Witness ==
  /\ Len(exchanges) = 3
  /\ exchanges[1].req.apiKey = Undefined
  /\ exchanges[2].req.apiKey = Str(sKEY)
  /\ exchanges[3].req.apiKey = Str(VALID_API_KEY)
  /\ exchanges[3].res.handler = "root"

(* C24: echo.  An authenticated POST /echo with a JSON body is answered    *)
(* 200 with a body equal to the body of that request, whatever other echo  *)
(* requests arrive or are answered while its body is read.                 *)
C24_EchoOwnBody ==
  \A i \in DOMAIN exchanges :
    LET req == exchanges[i].req
        res == exchanges[i].res
    IN  (/\ req.method = sPOST /\ req.url = sEcho
         /\ req.apiKey = Str(VALID_API_KEY)
         /\ req.payload.kind = "json"
         /\ res # EchoPending)
          => /\ res.status = 200
             /\ res.handler = "echo"
             /\ res.body = req.payload.value

\* the echo that arrived second is answered while the first is still read,
\* and their bodies differ
C24_Witness ==
  /\ Len(exchanges) >= 2
  /\ exchanges[1].req.payload.kind = "json"
  /\ exchanges[2].req.payload.kind = "json"
  /\ exchanges[1].req.payload.value # exchanges[2].req.payload.value
  /\ exchanges[1].res = EchoPending
  /\ exchanges[2].res.handler = "echo"
  /\ exchanges[2].res.body = exchanges[2].req.payload.value

(* C31: Send validates the recipient before the message.  A POST /send     *)
(* with a parsed body in which the recipient and the message are both      *)
(* invalid is answered 400 'Invalid recipient', and the answer 'Invalid    *)
(* message' is only given when the recipient is a non-empty string.        *)
NonEmptyString(v) == v.type = "string" /\ Len(v.str) > 0

C31_RecipientFirst ==
  (request.route = "POST /send" /\ request.body.present) =>
    /\ (~NonEmptyString(request.body.recipient) /\ ~NonEmptyString(request.body.message))
         => (response.status = 400 /\ response.error = "Invalid recipient")
    /\ (response.status = 400 /\ response.error = "Invalid message")
         => (NonEmptyString(request.body.recipient)
             /\ ~NonEmptyString(request.body.message))

\* an empty recipient with a missing message, refused for its recipient
C31_Witness ==
  /\ request.route = "POST /send"
  /\ request.body.present
  /\ request.body.recipient = Str(sEmpty)
  /\ request.body.message = Undefined
  /\ response.error = "Invalid recipient"
  /\ \E i \in DOMAIN calls : calls[i].res.status = 201

====
